---- MODULE Spec2Model ----
(***************************************************************************)
(* Model of the websocket client of go-hitbtc (websocket.go): the maps of  *)
(* delivery channels held by responseChannels, the Subscribe*, Unsubscribe* *)
(* and Close methods of WSClient, and responseChannels.Handle, which the    *)
(* jsonrpc2 connection runs once per inbound notification, each run in a    *)
(* goroutine of its own (jsonrpc2.AsyncHandler).                            *)
(*                                                                         *)
(* Go semantics the model keeps: channels are unbuffered; a send on a nil   *)
(* channel blocks for ever; close of a nil or of a closed channel panics;   *)
(* a send on a closed channel panics, also when the sender was already      *)
(* blocked; a panic ends the whole process; an absent map key reads as nil; *)
(* unsynchronised map accesses of two goroutines, one of them a write, may  *)
(* end in the runtime's fatal error.                                        *)
(***************************************************************************)
EXTENDS Integers, Sequences, FiniteSets, TLC

\* ---------------------------------------------------------------- bounds
MaxCalls == 3   \* API calls (Subscribe*, Unsubscribe*, Close) made in a run
MaxMsgs == 2    \* notifications the transport hands to the handler in a run
MaxEvents == 4  \* API calls and notifications in a run, taken together

\* ---------------------------------------------------------------- data
Symbols == {"ETHBTC", "BTCUSD"}
NoSymbol == ""
Interval30Minutes == "M30"
Interval1Hour == "H1"
Periods == {Interval30Minutes, Interval1Hour}
NoPeriod == "-"
Kinds == {"Ticker", "Trades", "Orderbook", "Candles"}

\* The seven maps of responseChannels / notificationChannels.
Feeds == {"notifications.TickerFeed", "notifications.OrderbookFeed",
          "notifications.TradesFeed", "notifications.CandlesFeed",
          "OrderbookFeed", "TradesFeed", "CandlesFeed"}
UpdateFeeds == {"notifications.TickerFeed", "notifications.OrderbookFeed",
                "notifications.TradesFeed", "notifications.CandlesFeed"}
SnapshotFeeds == Feeds \ UpdateFeeds
ErrorFeedName == "ErrorFeed"

Nil == 0        \* the nil channel, and what an absent map key reads as
EmptyMap == [s \in Symbols |-> Nil]
Present(map) == {s \in Symbols : map[s] # Nil}

SubscribeFeedsUpdateOnly(kind) ==
    CASE kind = "Ticker" -> <<"notifications.TickerFeed">>
      [] kind = "Trades" -> <<"notifications.TradesFeed">>
      [] kind = "Orderbook" -> <<"notifications.OrderbookFeed">>
      [] kind = "Candles" -> <<"notifications.CandlesFeed">>

\* The maps a Subscribe<kind> fills, in the order of its statements.
SubscribeFeeds(kind) ==
    CASE kind = "Ticker" -> <<"notifications.TickerFeed">>
      [] kind = "Trades" -> <<"notifications.TradesFeed", "TradesFeed">>
      [] kind = "Orderbook" -> <<"notifications.OrderbookFeed", "OrderbookFeed">>
      [] kind = "Candles" -> <<"notifications.CandlesFeed", "CandlesFeed">>

UnsubscribeFeedsTradesClosesTicker(kind) ==
    CASE kind = "Ticker" -> <<"notifications.TickerFeed">>
      [] kind = "Trades" -> <<"notifications.TickerFeed", "TradesFeed">>
      [] kind = "Orderbook" -> <<"notifications.OrderbookFeed", "OrderbookFeed">>
      [] kind = "Candles" -> <<"notifications.CandlesFeed", "CandlesFeed">>

UnsubscribeFeedsUpdateOnly(kind) == <<SubscribeFeeds(kind)[1]>>

\* The maps an Unsubscribe<kind> closes and deletes from, in statement order.
UnsubscribeFeeds(kind) ==
    CASE kind = "Ticker" -> <<"notifications.TickerFeed">>
      [] kind = "Trades" -> <<"notifications.TradesFeed", "TradesFeed">>
      [] kind = "Orderbook" -> <<"notifications.OrderbookFeed", "OrderbookFeed">>
      [] kind = "Candles" -> <<"notifications.CandlesFeed", "CandlesFeed">>

CloseOrderNoSnapshots ==
    <<"notifications.TickerFeed", "notifications.TradesFeed",
      "notifications.CandlesFeed", "notifications.OrderbookFeed">>

\* The order of the range loops of Close.
CloseOrder ==
    <<"notifications.TickerFeed", "notifications.TradesFeed",
      "notifications.CandlesFeed", "notifications.OrderbookFeed",
      "OrderbookFeed", "TradesFeed", "CandlesFeed">>

ResetOrderUpdatesOnly ==
    <<"notifications.TickerFeed", "notifications.TradesFeed",
      "notifications.OrderbookFeed", "notifications.CandlesFeed">>

\* The order in which Close assigns fresh maps.
ResetOrder ==
    <<"notifications.TickerFeed", "notifications.TradesFeed",
      "notifications.OrderbookFeed", "notifications.CandlesFeed",
      "CandlesFeed", "TradesFeed", "OrderbookFeed">>

\* The method names of Handle's switch.
Methods == {"ticker", "snapshotOrderbook", "updateOrderbook", "snapshotTrades",
            "updateTrades", "snapshotCandles", "updateCandles"}
UnknownMethod == "report"

MethodFeedSwapped(method) ==
    CASE method = "ticker" -> "notifications.TickerFeed"
      [] method = "snapshotOrderbook" -> "OrderbookFeed"
      [] method = "updateOrderbook" -> "OrderbookFeed"
      [] method = "snapshotTrades" -> "TradesFeed"
      [] method = "updateTrades" -> "TradesFeed"
      [] method = "snapshotCandles" -> "CandlesFeed"
      [] method = "updateCandles" -> "CandlesFeed"

\* The map each case of Handle's switch sends through.
MethodFeed(method) ==
    CASE method = "ticker" -> "notifications.TickerFeed"
      [] method = "snapshotOrderbook" -> "OrderbookFeed"
      [] method = "updateOrderbook" -> "notifications.OrderbookFeed"
      [] method = "snapshotTrades" -> "TradesFeed"
      [] method = "updateTrades" -> "notifications.TradesFeed"
      [] method = "snapshotCandles" -> "CandlesFeed"
      [] method = "updateCandles" -> "notifications.CandlesFeed"

\* Inbound requests: params "ok" decode into the method's type, "bad" fail
\* json.Unmarshal, "nil" is a request without params.
Requests ==
    [method : Methods, sym : Symbols, params : {"ok"}]
    \cup [method : Methods, sym : {NoSymbol}, params : {"bad"}]
    \cup [method : {UnknownMethod}, sym : {NoSymbol}, params : {"ok"}]
    \cup [method : {"ticker"}, sym : {NoSymbol}, params : {"nil"}]

\* ---------------------------------------------------------------- state
VARIABLES
    conn,       \* "open" | "closed": the jsonrpc2 connection
    feed,       \* [Feeds -> [Symbols -> channel or Nil]]: the seven maps
    ErrorFeed,  \* the channel in the ErrorFeed field
    chans,      \* every channel made so far (its index is its identity)
    thr,        \* the goroutines calling the API, and the call each is in
    handlers,   \* the goroutines AsyncHandler started, one per request
    sendq,      \* handlers blocked in a send, in the order they blocked
    fault,      \* the panic or fatal error that ended the process, if any
    ncalls,     \* API calls started
    hist        \* the API call started last: its arguments, what the maps
                \* and channels were when it started, and what it returned

vars == <<conn, feed, ErrorFeed, chans, thr, handlers, sendq, fault, ncalls, hist>>

Callers == {1, 2}
NoFault == [kind |-> "none", by |-> "none"]
Running == fault = NoFault

\* make(chan T): the channel made for map f and symbol s by a call with period p.
MakeChan(f, s, p) ==
    [st |-> "open", closes |-> 0, feed |-> f, sym |-> s, period |-> p,
     returned |-> FALSE, got |-> <<>>]

\* A caller between two calls.
NoCall ==
    [pc |-> "idle", op |-> "none", kind |-> "none", sym |-> NoSymbol,
     period |-> NoPeriod, ret |-> <<>>, i |-> 0, snap |-> {}, todo |-> {}]

NoHist ==
    [t |-> 0, op |-> "none", kind |-> "none", sym |-> NoSymbol,
     period |-> NoPeriod, outcome |-> "none", err |-> FALSE, done |-> FALSE,
     ret |-> <<>>, pre |-> [f \in Feeds |-> EmptyMap], preChans |-> <<>>]

Init ==
    /\ conn = "open"
    /\ feed = [f \in Feeds |-> EmptyMap]
    /\ chans = <<MakeChan(ErrorFeedName, NoSymbol, NoPeriod)>>
    /\ ErrorFeed = 1
    /\ thr = [t \in Callers |-> NoCall]
    /\ handlers = <<>>
    /\ sendq = <<>>
    /\ fault = NoFault
    /\ ncalls = 0
    /\ hist = NoHist


\* ---------------------------------------------------------------- helpers
\* What c.conn.Call can come back with: a transport error, or the server's
\* boolean result. A closed connection only gives the error.
Outcomes == IF conn = "open" THEN {"err", "false", "true"} ELSE {"err"}

OpErrorOnlyOnFalse(kind, outcome) == outcome = "false"

OpErrorCandlesChecked(kind, outcome) == outcome # "true"

\* subscriptionOp returns an error on a transport error and on a false result;
\* candlesSubscriptionOp only on a transport error.
OpError(kind, outcome) ==
    IF kind = "Candles" THEN outcome = "err" ELSE outcome # "true"

PeriodsOf(kind) == IF kind = "Candles" THEN Periods ELSE {NoPeriod}

NeedsMakeSnapshot(f, s) == feed[f][s] = Nil \/ f \in SnapshotFeeds

NeedsMakeAlways(f, s) == TRUE

\* The guard of Subscribe*'s "if map[symbol] == nil".
NeedsMake(f, s) == feed[f][s] = Nil

\* close(c) executed by `by`: panics on a nil and on a closed channel.
DoClose(c, by) ==
    IF c = Nil
    THEN /\ fault' = [kind |-> "close of nil channel", by |-> by]
         /\ UNCHANGED chans
    ELSE /\ chans' = [chans EXCEPT ![c].st = "closed", ![c].closes = @ + 1]
         /\ fault' = IF chans[c].st = "closed"
                     THEN [kind |-> "close of closed channel", by |-> by]
                     ELSE fault

\* ---------------------------------------------------------------- calls
\* The bounds of a run leave room for one more API call.
MayCall == ncalls < MaxCalls /\ ncalls + Len(handlers) < MaxEvents

\* The record of a call that caller t starts now.
Started(t, op, kind, sym, period, outcome, err) ==
    [t |-> t, op |-> op, kind |-> kind, sym |-> sym, period |-> period,
     outcome |-> outcome, err |-> err, done |-> err, ret |-> <<>>,
     pre |-> feed, preChans |-> chans]

\* The record once caller t has returned ret.
Returned(t, ret) ==
    IF hist.t = t /\ ~hist.done THEN [hist EXCEPT !.done = TRUE, !.ret = ret]
    ELSE hist

\* A call of caller t, past its subscription call and about to run pc.
InCall(op, kind, sym, period, pc) ==
    [NoCall EXCEPT !.op = op, !.kind = kind, !.sym = sym, !.period = period,
                   !.pc = pc, !.i = 1]

\* ---------------------------------------------------------------- Subscribe*
\* Subscribe<kind>(sym[, period]) up to the return of the subscription call.
CallSubscribe(t) ==
    /\ Running /\ thr[t].pc = "idle" /\ MayCall
    /\ \E kind \in Kinds, sym \in Symbols, outcome \in Outcomes :
         \E period \in PeriodsOf(kind) :
           /\ hist' = Started(t, "subscribe", kind, sym, period, outcome,
                              OpError(kind, outcome))
           /\ thr' = [thr EXCEPT ![t] =
                        IF OpError(kind, outcome) THEN NoCall
                        ELSE InCall("subscribe", kind, sym, period, "check")]
    /\ ncalls' = ncalls + 1
    /\ UNCHANGED <<conn, feed, ErrorFeed, chans, handlers, sendq, fault>>

\* The caller after the statement on map i of its Subscribe*: on to the
\* next map with `more`, or after the last map on to `then`.
AfterFeed(c, more, then) ==
    IF c.i < Len(SubscribeFeeds(c.kind))
    THEN [c EXCEPT !.pc = more, !.i = @ + 1]
    ELSE [c EXCEPT !.pc = then, !.i = 1]

\* if c.updates...Feed[symbol] == nil
SubscribeCheck(t) ==
    /\ Running /\ thr[t].pc = "check"
    /\ LET c == thr[t]
           f == SubscribeFeeds(c.kind)[c.i]
       IN thr' = [thr EXCEPT ![t] =
                    IF NeedsMake(f, c.sym) THEN [c EXCEPT !.pc = "make"]
                    ELSE AfterFeed(c, "check", "ret")]
    /\ UNCHANGED <<conn, feed, ErrorFeed, chans, handlers, sendq, fault, ncalls, hist>>

\* c.updates...Feed[symbol] = make(chan ...)
SubscribeMake(t) ==
    /\ Running /\ thr[t].pc = "make"
    /\ LET c == thr[t]
           f == SubscribeFeeds(c.kind)[c.i]
       IN /\ chans' = Append(chans, MakeChan(f, c.sym, c.period))
          /\ feed' = [feed EXCEPT ![f][c.sym] = Len(chans) + 1]
          /\ thr' = [thr EXCEPT ![t] = AfterFeed(c, "check", "ret")]
    /\ UNCHANGED <<conn, ErrorFeed, handlers, sendq, fault, ncalls, hist>>

\* return c.updates...Feed[symbol], ..., nil: one map read per step.
SubscribeReturn(t) ==
    /\ Running /\ thr[t].pc = "ret"
    /\ LET c == thr[t]
           f == SubscribeFeeds(c.kind)[c.i]
           ret == Append(c.ret, feed[f][c.sym])
       IN IF c.i < Len(SubscribeFeeds(c.kind))
          THEN /\ thr' = [thr EXCEPT ![t].ret = ret, ![t].i = c.i + 1]
               /\ UNCHANGED <<chans, hist>>
          ELSE /\ thr' = [thr EXCEPT ![t] = NoCall]
               /\ hist' = Returned(t, ret)
               /\ chans' = [k \in 1..Len(chans) |->
                              IF \E j \in 1..Len(ret) : ret[j] = k
                              THEN [chans[k] EXCEPT !.returned = TRUE]
                              ELSE chans[k]]
    /\ UNCHANGED <<conn, feed, ErrorFeed, handlers, sendq, fault, ncalls>>

\* ---------------------------------------------------------------- Unsubscribe*
\* Unsubscribe<kind>(sym[, period]) up to the return of the subscription call.
CallUnsubscribe(t) ==
    /\ Running /\ thr[t].pc = "idle" /\ MayCall
    /\ \E kind \in Kinds, sym \in Symbols, outcome \in Outcomes :
         \E period \in PeriodsOf(kind) :
           /\ hist' = Started(t, "unsubscribe", kind, sym, period, outcome,
                              OpError(kind, outcome))
           /\ thr' = [thr EXCEPT ![t] =
                        IF OpError(kind, outcome) THEN NoCall
                        ELSE InCall("unsubscribe", kind, sym, period, "close")]
    /\ ncalls' = ncalls + 1
    /\ UNCHANGED <<conn, feed, ErrorFeed, chans, handlers, sendq, fault>>

\* close(c.updates...Feed[symbol])
UnsubscribeClose(t) ==
    /\ Running /\ thr[t].pc = "close"
    /\ LET c == thr[t]
           f == UnsubscribeFeeds(c.kind)[c.i]
       IN /\ DoClose(feed[f][c.sym], "Unsubscribe")
          /\ thr' = [thr EXCEPT ![t].pc = "delete"]
    /\ UNCHANGED <<conn, feed, ErrorFeed, handlers, sendq, ncalls, hist>>

\* delete(c.updates...Feed, symbol), and after the last one: return nil
UnsubscribeDelete(t) ==
    /\ Running /\ thr[t].pc = "delete"
    /\ LET c == thr[t]
           f == UnsubscribeFeeds(c.kind)[c.i]
       IN /\ feed' = [feed EXCEPT ![f][c.sym] = Nil]
          /\ IF c.i < Len(UnsubscribeFeeds(c.kind))
             THEN /\ thr' = [thr EXCEPT ![t].pc = "close", ![t].i = c.i + 1]
                  /\ UNCHANGED hist
             ELSE /\ thr' = [thr EXCEPT ![t] = NoCall]
                  /\ hist' = Returned(t, <<>>)
    /\ UNCHANGED <<conn, ErrorFeed, chans, handlers, sendq, fault, ncalls>>

\* ---------------------------------------------------------------- Close
\* c.conn.Close()
CallClose(t) ==
    /\ Running /\ thr[t].pc = "idle" /\ MayCall
    /\ hist' = Started(t, "close", "none", NoSymbol, NoPeriod, "none", FALSE)
    /\ thr' = [thr EXCEPT ![t] = [NoCall EXCEPT !.op = "close", !.pc = "range"]]
    /\ conn' = "closed"
    /\ ncalls' = ncalls + 1
    /\ UNCHANGED <<feed, ErrorFeed, chans, handlers, sendq, fault>>

\* One iteration of "for _, channel := range <map> { close(channel) }".
CloseRange(t) ==
    /\ Running /\ thr[t].pc = "range" /\ thr[t].i >= 1
    /\ LET c == thr[t]
           f == CloseOrder[c.i]
       IN \E s \in c.todo :
            /\ feed[f][s] # Nil
            /\ DoClose(feed[f][s], "Close")
            /\ thr' = [thr EXCEPT ![t].todo = @ \ {s}]
    /\ UNCHANGED <<conn, feed, ErrorFeed, handlers, sendq, ncalls, hist>>

\* The end of one range loop and the start of the next. The loop has
\* produced every entry that was in the map when it started and is still
\* there; an entry added while it ran may have been skipped.
CloseRangeNext(t) ==
    /\ Running /\ thr[t].pc = "range"
    /\ LET c == thr[t]
       IN /\ c.i >= 1 => \A s \in c.todo \cap c.snap : feed[CloseOrder[c.i]][s] = Nil
          /\ thr' = [thr EXCEPT ![t] =
                       IF c.i < Len(CloseOrder)
                       THEN [c EXCEPT !.i = @ + 1, !.todo = Symbols,
                               !.snap = Present(feed[CloseOrder[c.i + 1]])]
                       ELSE [c EXCEPT !.pc = "closeErr", !.i = 1,
                               !.todo = {}, !.snap = {}]]
    /\ UNCHANGED <<conn, feed, ErrorFeed, chans, handlers, sendq, fault, ncalls, hist>>

\* close(c.updates.ErrorFeed)
CloseErrorFeed(t) ==
    /\ Running /\ thr[t].pc = "closeErr"
    /\ DoClose(ErrorFeed, "Close")
    /\ thr' = [thr EXCEPT ![t].pc = "reset"]
    /\ UNCHANGED <<conn, feed, ErrorFeed, handlers, sendq, ncalls, hist>>

\* c.updates...Feed = make(map[string]chan ...), one assignment per step.
CloseReset(t) ==
    /\ Running /\ thr[t].pc = "reset"
    /\ LET c == thr[t]
       IN /\ feed' = [feed EXCEPT ![ResetOrder[c.i]] = EmptyMap]
          /\ thr' = [thr EXCEPT ![t] =
                       IF c.i < Len(ResetOrder) THEN [c EXCEPT !.i = @ + 1]
                       ELSE [c EXCEPT !.pc = "newErr", !.i = 1]]
    /\ UNCHANGED <<conn, ErrorFeed, chans, handlers, sendq, fault, ncalls, hist>>

\* c.updates.ErrorFeed = make(chan error), and Close returns.
CloseNewErrorFeed(t) ==
    /\ Running /\ thr[t].pc = "newErr"
    /\ chans' = Append(chans, MakeChan(ErrorFeedName, NoSymbol, NoPeriod))
    /\ ErrorFeed' = Len(chans) + 1
    /\ thr' = [thr EXCEPT ![t] = NoCall]
    /\ hist' = Returned(t, <<>>)
    /\ UNCHANGED <<conn, feed, handlers, sendq, fault, ncalls>>

\* ---------------------------------------------------------------- Handle
NoValue == [type |-> "none", sym |-> NoSymbol]
\* unk records that the request named a method outside Handle's switch.
NewHandler == [pc |-> "run", ch |-> Nil, val |-> NoValue, unk |-> FALSE]

\* The connection's read loop takes one request off the wire and AsyncHandler
\* starts a goroutine that will run Handle on it. Requests are numbered in
\* wire order; what the request holds is drawn where Handle first reads it.
Arrive ==
    /\ Running /\ conn = "open"
    /\ Len(handlers) < MaxMsgs /\ ncalls + Len(handlers) < MaxEvents
    /\ handlers' = Append(handlers, NewHandler)
    /\ UNCHANGED <<conn, feed, ErrorFeed, chans, thr, sendq, fault, ncalls, hist>>

HandlerMayRunAfterErrors(h) ==
    \A g \in 1..(h - 1) :
        ~(handlers[g].pc = "send" /\ handlers[g].val.type = "error")

HandlerMayRunInline(h) == \A g \in 1..(h - 1) : handlers[g].pc = "done"

\* jsonrpc2.AsyncHandler: Handle runs in its own goroutine, whatever the
\* earlier invocations are doing.
HandlerMayRun(h) == TRUE

\* json.Unmarshal(message, &msg): the value Handle goes on to send.
Decoded(req) ==
    IF req.params = "bad" THEN [type |-> "error", sym |-> NoSymbol]
    ELSE [type |-> req.method, sym |-> req.sym]

TargetOfMethod(req) ==
    feed[MethodFeed(req.method)][IF req.sym = NoSymbol THEN "ETHBTC" ELSE req.sym]

\* The channel operand of Handle's send statement.
Target(req) ==
    IF req.params = "bad" THEN ErrorFeed ELSE feed[MethodFeed(req.method)][req.sym]

\* Handle returns without a send: the request has no params, or no case of
\* the switch names its method.
Return(h, req) ==
    /\ handlers' = [handlers EXCEPT ![h].pc = "done",
                                    ![h].unk = req.method \notin Methods]
    /\ UNCHANGED <<sendq, fault>>

\* The send statement "c <- v" of Handle, up to the point where it blocks
\* or panics.
Send(h, req, c, v) ==
    IF c = Nil
    THEN /\ handlers' = [handlers EXCEPT ![h].pc = "nilsend",
                                         ![h].unk = req.method \notin Methods]
         /\ UNCHANGED <<sendq, fault>>
    ELSE /\ handlers' = [handlers EXCEPT ![h].pc = "send", ![h].ch = c,
                                         ![h].val = v,
                                         ![h].unk = req.method \notin Methods]
         /\ sendq' = Append(sendq, h)
         /\ fault' = IF chans[c].st = "closed"
                     THEN [kind |-> "send on closed channel", by |-> "Handle"]
                     ELSE fault

HandleRequestDefaultError(h, req) ==
    IF req.params = "nil" THEN Return(h, req)
    ELSE IF req.method \notin Methods
         THEN Send(h, req, ErrorFeed, [type |-> "error", sym |-> NoSymbol])
         ELSE Send(h, req, Target(req), Decoded(req))

\* Handle on request req, up to the point where its send statement blocks,
\* panics or is not reached (no params, or a method outside the switch).
HandleRequest(h, req) ==
    IF req.params = "nil" \/ req.method \notin Methods
    THEN Return(h, req)
    ELSE Send(h, req, Target(req), Decoded(req))

Handle(h) ==
    /\ Running /\ handlers[h].pc = "run" /\ HandlerMayRun(h)
    /\ \E req \in Requests : HandleRequest(h, req)
    /\ UNCHANGED <<conn, feed, ErrorFeed, chans, thr, ncalls, hist>>

\* A sender blocked on a channel that is closed under it panics.
HandlePanic(h) ==
    /\ Running /\ handlers[h].pc = "send" /\ chans[handlers[h].ch].st = "closed"
    /\ fault' = [kind |-> "send on closed channel", by |-> "Handle"]
    /\ UNCHANGED <<conn, feed, ErrorFeed, chans, thr, handlers, sendq, ncalls, hist>>

\* The senders blocked on channel c, first blocked first.
Senders(c) == SelectSeq(sendq, LAMBDA h : handlers[h].ch = c)

\* A consumer receives from channel c: the longest-blocked sender hands over
\* its value and its Handle returns.
Receive(c) ==
    /\ Running /\ chans[c].st = "open" /\ Senders(c) # <<>>
    /\ LET h == Head(Senders(c))
       IN /\ chans' = [chans EXCEPT ![c].got =
                         Append(@, [id |-> h, type |-> handlers[h].val.type,
                                    sym |-> handlers[h].val.sym])]
          /\ handlers' = [handlers EXCEPT ![h].pc = "done", ![h].val = NoValue]
          /\ sendq' = SelectSeq(sendq, LAMBDA g : g # h)
    /\ UNCHANGED <<conn, feed, ErrorFeed, thr, fault, ncalls, hist>>

\* ---------------------------------------------------------------- map races
\* The map accesses of the next statement of a caller / of a handler.
CallerAccess(t) ==
    LET c == thr[t]
    IN CASE c.pc \in {"check", "ret"} -> {<<SubscribeFeeds(c.kind)[c.i], "r">>}
         [] c.pc = "make" -> {<<SubscribeFeeds(c.kind)[c.i], "w">>}
         [] c.pc = "close" -> {<<UnsubscribeFeeds(c.kind)[c.i], "r">>}
         [] c.pc = "delete" -> {<<UnsubscribeFeeds(c.kind)[c.i], "w">>}
         [] c.pc = "range" /\ c.i >= 1 -> {<<CloseOrder[c.i], "r">>}
         [] OTHER -> {}

\* A handler about to run may read any of the seven maps.
HandlerAccess(h) ==
    IF handlers[h].pc = "run" THEN {<<f, "r">> : f \in Feeds} ELSE {}

\* The maps are not locked: when a map write of one goroutine overlaps
\* another goroutine's access of the same map, the runtime may stop the
\* process ("concurrent map read and map write", "concurrent map writes").
MapRace(T) ==
    /\ Running
    /\ \E t \in T : \E a \in CallerAccess(t) :
         /\ a[2] = "w"
         /\ \/ \E u \in T \ {t} : \E b \in CallerAccess(u) : b[1] = a[1]
            \/ \E h \in 1..Len(handlers) : \E b \in HandlerAccess(h) : b[1] = a[1]
    /\ fault' = [kind |-> "concurrent map access", by |-> "runtime"]
    /\ UNCHANGED <<conn, feed, ErrorFeed, chans, thr, handlers, sendq, ncalls, hist>>

\* ---------------------------------------------------------------- specifications
CallerStep(t) ==
    \/ CallSubscribe(t) \/ SubscribeCheck(t) \/ SubscribeMake(t) \/ SubscribeReturn(t)
    \/ CallUnsubscribe(t) \/ UnsubscribeClose(t) \/ UnsubscribeDelete(t)
    \/ CallClose(t) \/ CloseRange(t) \/ CloseRangeNext(t) \/ CloseErrorFeed(t)
    \/ CloseReset(t) \/ CloseNewErrorFeed(t)

TransportStep ==
    \/ Arrive
    \/ \E h \in 1..Len(handlers) : Handle(h)
    \/ \E h \in 1..Len(handlers) : HandlePanic(h)
    \/ \E c \in 1..Len(chans) : Receive(c)

\* One goroutine makes all the API calls, one after the other; the handler
\* goroutines and the consumers run beside it.
Next == CallerStep(1) \/ TransportStep \/ MapRace({1})

Spec == Init /\ [][Next]_vars

\* Two goroutines call the API at the same time.
NextConc == (\E t \in Callers : CallerStep(t)) \/ MapRace(Callers)

SpecConc == Init /\ [][NextConc]_vars

\* The Go scheduler runs every goroutine that can run: a handler goroutine
\* that AsyncHandler started gets to run Handle, and to panic when its
\* channel is closed under it.
Dispatch == \E h \in 1..Len(handlers) : Handle(h) \/ HandlePanic(h)

\* The consumers of the delivery channels keep reading them. Nobody has to
\* read the error feed.
Consume == \E c \in 1..Len(chans) : chans[c].feed \in Feeds /\ Receive(c)

\* One caller, the handlers and the consumers, with handlers that get to
\* run and consumers that keep reading.
SpecLive == Init /\ [][Next]_vars /\ WF_vars(Dispatch) /\ WF_vars(Consume)

\* ---------------------------------------------------------------- vocabulary
\* The topic kind and the shape of each of the seven maps, and of each
\* notification method.
Topic(f) ==
    CASE f \in {"notifications.TickerFeed"} -> "Ticker"
      [] f \in {"notifications.TradesFeed", "TradesFeed"} -> "Trades"
      [] f \in {"notifications.OrderbookFeed", "OrderbookFeed"} -> "Orderbook"
      [] f \in {"notifications.CandlesFeed", "CandlesFeed"} -> "Candles"
      [] OTHER -> "none"

Shape(f) ==
    IF f \in UpdateFeeds THEN "update"
    ELSE IF f \in SnapshotFeeds THEN "snapshot" ELSE "none"

MethodTopic(m) ==
    CASE m = "ticker" -> "Ticker"
      [] m \in {"snapshotTrades", "updateTrades"} -> "Trades"
      [] m \in {"snapshotOrderbook", "updateOrderbook"} -> "Orderbook"
      [] m \in {"snapshotCandles", "updateCandles"} -> "Candles"
      [] OTHER -> "none"

MethodShape(m) ==
    IF m \in {"snapshotTrades", "snapshotOrderbook", "snapshotCandles"}
    THEN "snapshot" ELSE "update"

ChanIds == 1..Len(chans)
Delivery == {c \in ChanIds : chans[c].feed \in Feeds}
HandlerIds == 1..Len(handlers)

\* The channels made for (kind, sym), in either shape.
ChansOf(kind, sym) ==
    {c \in Delivery : Topic(chans[c].feed) = kind /\ chans[c].sym = sym}

\* The entries the registry held for (kind, sym) when the last call started.
PreEntries(kind, sym) ==
    {hist.pre[f][sym] : f \in {g \in Feeds : Topic(g) = kind}} \ {Nil}

\* The last call has returned, and it was this operation.
Finished(op) == hist.done /\ hist.op = op

\* ---------------------------------------------------------------- C1
\* C1: once an acknowledged Unsubscribe<K>(S) has returned, none of the maps
\* of topic K holds an entry for S, and every channel a Subscribe<K>(S)
\* returned is closed.
C1_UnsubscribeRemovesAndCloses ==
    (Finished("unsubscribe") /\ hist.outcome = "true") =>
        /\ \A f \in Feeds : Topic(f) = hist.kind => feed[f][hist.sym] = Nil
        /\ \A c \in ChansOf(hist.kind, hist.sym) :
             chans[c].returned => chans[c].st = "closed"

\* A Subscribe<K>(S) of a two-shape topic returned its two channels and the
\* Unsubscribe<K>(S) after it has returned.
C1_Witness ==
    /\ Finished("unsubscribe") /\ hist.outcome = "true" /\ Running
    /\ \E c, d \in ChansOf(hist.kind, hist.sym) :
         /\ Shape(chans[c].feed) = "update" /\ Shape(chans[d].feed) = "snapshot"
         /\ chans[c].returned /\ chans[d].returned
         /\ hist.pre[chans[c].feed][hist.sym] = c
         /\ hist.pre[chans[d].feed][hist.sym] = d

\* ---------------------------------------------------------------- C2
\* C2: a well-formed notification whose (map, symbol) has no entry is
\* dropped: its Handle returns; it does not stay blocked in its send.
C2_OrphanIsDropped ==
    \A h \in HandlerIds : handlers[h].pc # "nilsend"

\* ---------------------------------------------------------------- C3
\* C3: what a consumer has received from a delivery channel is, in wire
\* order, the notifications handed to the handler for that channel: nothing
\* received out of order, and nothing still waiting that came before a
\* received one.
C3_FifoPerKey ==
    \A c \in Delivery :
        LET got == chans[c].got
        IN /\ \A i, j \in 1..Len(got) : i < j => got[i].id < got[j].id
           /\ \A i \in 1..Len(got) : \A h \in HandlerIds :
                (handlers[h].pc = "send" /\ handlers[h].ch = c) => got[i].id < h

\* ---------------------------------------------------------------- C4
\* C4: while a notification stays undelivered because nobody reads its
\* channel, every notification that came after it can still run its Handle,
\* and once that one offers its value on another, open channel the consumer
\* of that channel can receive.
C4_NoHeadOfLineBlocking ==
    \A h1, h2 \in HandlerIds :
        (/\ Running /\ h1 < h2
         /\ handlers[h1].pc = "send" /\ chans[handlers[h1].ch].st = "open") =>
            /\ handlers[h2].pc = "run" => ENABLED Handle(h2)
            /\ (/\ handlers[h2].pc = "send"
                /\ handlers[h2].ch # handlers[h1].ch
                /\ chans[handlers[h2].ch].st = "open") =>
                   ENABLED Receive(handlers[h2].ch)

\* The first notification is still waiting on its delivery channel and the
\* second, for another key, has been received from its own.
C4_Witness ==
    /\ Running /\ Len(handlers) = 2
    /\ handlers[1].pc = "send" /\ handlers[1].ch \in Delivery
    /\ chans[handlers[1].ch].st = "open"
    /\ \E c \in Delivery \ {handlers[1].ch} :
         /\ \E i \in 1..Len(chans[c].got) : chans[c].got[i].id = 2
         /\ <<Topic(chans[c].feed), chans[c].sym>> #
              <<Topic(chans[handlers[1].ch].feed), chans[handlers[1].ch].sym>>

\* ---------------------------------------------------------------- C5
\* C5: Close itself never panics, and once it has returned every channel
\* that was in one of the seven maps when it was called has been closed,
\* once, and the seven maps are empty.
C5_CloseClosesEverything ==
    /\ fault.by # "Close"
    /\ Finished("close") =>
         /\ \A f \in Feeds : feed[f] = EmptyMap
         /\ \A f \in Feeds, s \in Symbols :
              hist.pre[f][s] # Nil =>
                 /\ chans[hist.pre[f][s]].st = "closed"
                 /\ chans[hist.pre[f][s]].closes = 1

\* Close has returned after it was called with an update-only topic and a
\* two-shape topic subscribed.
C5_Witness ==
    /\ Finished("close") /\ Running
    /\ \E s \in Symbols : hist.pre["notifications.TickerFeed"][s] # Nil
    /\ \E f \in SnapshotFeeds, s \in Symbols : hist.pre[f][s] # Nil
    /\ Cardinality({<<f, s>> \in Feeds \X Symbols : hist.pre[f][s] # Nil}) = 3

\* ---------------------------------------------------------------- C6
\* C6: a Subscribe<K>(S) that the server answers with false returns an
\* error and leaves the maps of K without a new entry for S.
C6_RejectedSubscribe ==
    (hist.op = "subscribe" /\ hist.outcome = "false") =>
        /\ hist.err
        /\ \A f \in Feeds : Topic(f) = hist.kind =>
             feed[f][hist.sym] = hist.pre[f][hist.sym]

\* ---------------------------------------------------------------- C7
\* C7: an acknowledged Unsubscribe<K>(S) called while no map of K holds an
\* entry for S does not panic, closes nothing and leaves the maps as they
\* were.
C7_UnsubscribeAbsentIsNoop ==
    (/\ hist.op = "unsubscribe" /\ hist.outcome = "true"
     /\ PreEntries(hist.kind, hist.sym) = {}) =>
        /\ fault.by # "Unsubscribe"
        /\ feed = hist.pre
        /\ \A c \in 1..Len(hist.preChans) : chans[c].closes = hist.preChans[c].closes

\* ---------------------------------------------------------------- C8
\* C8: every value received from a channel was sent by the case of its own
\* method: a snapshot<Topic> for S only on the snapshot channel made for
\* (Topic, S), an update<Topic> (or ticker) for S only on the update channel
\* made for (Topic, S), and a decode error only on an error feed.
C8_Routing ==
    \A c \in ChanIds : \A i \in 1..Len(chans[c].got) :
        LET m == chans[c].got[i]
        IN IF m.type = "error" THEN chans[c].feed = ErrorFeedName
           ELSE /\ c \in Delivery
                /\ Topic(chans[c].feed) = MethodTopic(m.type)
                /\ Shape(chans[c].feed) = MethodShape(m.type)
                /\ chans[c].sym = m.sym

\* A snapshotOrderbook and an updateOrderbook for one symbol have both been
\* received, each from the channel of its shape.
C8_Witness ==
    \E c, d \in Delivery :
        /\ chans[c].feed = "OrderbookFeed"
        /\ chans[d].feed = "notifications.OrderbookFeed"
        /\ chans[c].sym = chans[d].sym
        /\ \E i \in 1..Len(chans[c].got) : chans[c].got[i].type = "snapshotOrderbook"
        /\ \E i \in 1..Len(chans[d].got) : chans[d].got[i].type = "updateOrderbook"

\* ---------------------------------------------------------------- C9
\* A SubscribeCandles(S, P2) has returned without error, and when it was
\* called both candle maps held for S a channel made by a SubscribeCandles
\* with another period.
SecondCandlesSubscribe ==
    /\ Finished("subscribe") /\ hist.kind = "Candles" /\ ~hist.err
    /\ hist.pre["notifications.CandlesFeed"][hist.sym] # Nil
    /\ hist.pre["CandlesFeed"][hist.sym] # Nil
    /\ chans[hist.pre["notifications.CandlesFeed"][hist.sym]].period # hist.period
    /\ chans[hist.pre["CandlesFeed"][hist.sym]].period # hist.period

\* The candle maps hold for S exactly the two channels the last call returned.
HoldsReturned ==
    /\ Len(hist.ret) = 2
    /\ feed["notifications.CandlesFeed"][hist.sym] = hist.ret[1]
    /\ feed["CandlesFeed"][hist.sym] = hist.ret[2]
    /\ hist.ret[1] # Nil /\ hist.ret[2] # Nil

\* C9 as claimed: the channels of the second SubscribeCandles take the place
\* of the channels of the first under the key S.
C9_SecondReplacesFirst ==
    SecondCandlesSubscribe =>
        /\ HoldsReturned
        /\ hist.ret[1] # hist.pre["notifications.CandlesFeed"][hist.sym]
        /\ hist.ret[2] # hist.pre["CandlesFeed"][hist.sym]

\* C9 as amended: the second SubscribeCandles makes no channel; it returns
\* the two channels of the first, which are still open and still the ones
\* the candle maps hold for S.
C9_SecondReturnsFirst ==
    SecondCandlesSubscribe =>
        /\ HoldsReturned
        /\ hist.ret[1] = hist.pre["notifications.CandlesFeed"][hist.sym]
        /\ hist.ret[2] = hist.pre["CandlesFeed"][hist.sym]
        /\ chans[hist.ret[1]].st = "open" /\ chans[hist.ret[2]].st = "open"
        /\ Len(chans) = Len(hist.preChans)

C9_Witness == SecondCandlesSubscribe /\ Running

\* ---------------------------------------------------------------- C10
\* C10: close is executed at most once on any delivery channel.
C10_NoDoubleClose ==
    \A c \in Delivery : chans[c].closes <= 1

\* ---------------------------------------------------------------- C11
\* C11: the dispatcher never sends on a delivery channel that has been
\* closed: no Handle panics with "send on closed channel" in a send on a
\* delivery channel, whatever Unsubscribe* and Close do beside it.
C11_NoSendOnClosed ==
    \A h \in HandlerIds :
        (/\ handlers[h].pc = "send" /\ handlers[h].ch \in Delivery
         /\ chans[handlers[h].ch].st = "closed") =>
            fault.kind # "send on closed channel"

\* ---------------------------------------------------------------- C12
\* The entries that (kind, sym) had when the last call started are gone from
\* the maps of kind, and their channels are closed.
Removed(kind, sym) ==
    /\ \A f \in Feeds : Topic(f) = kind => feed[f][sym] = Nil
    /\ \A c \in PreEntries(kind, sym) : chans[c].st = "closed"

\* No map and no channel has changed since the last call started.
Untouched ==
    /\ feed = hist.pre
    /\ Len(chans) = Len(hist.preChans)
    /\ \A c \in ChanIds : /\ chans[c].st = hist.preChans[c].st
                          /\ chans[c].closes = hist.preChans[c].closes

\* An Unsubscribe<K>(S) has returned and its subscription call came back
\* with the server's boolean, not with a transport error.
AnsweredUnsubscribe ==
    /\ hist.op = "unsubscribe" /\ hist.done
    /\ hist.outcome \in {"true", "false"}

\* C12 as claimed: for every topic kind, an Unsubscribe<K>(S) whose call came
\* back without a transport error has closed and removed the entries of
\* (K, S), whether the boolean was true or false.
C12_RemovesWhateverTheBoolean ==
    AnsweredUnsubscribe => Removed(hist.kind, hist.sym)

\* C12 as amended: with true every Unsubscribe<K>(S) that returns has closed
\* and removed the entries of (K, S), and so has UnsubscribeCandles with
\* false; UnsubscribeTicker, UnsubscribeTrades and UnsubscribeOrderbook with
\* false return an error and leave every map and channel as it was.
C12_RemovesByAcknowledgment ==
    AnsweredUnsubscribe =>
        IF hist.outcome = "false" /\ hist.kind # "Candles"
        THEN hist.err /\ Untouched
        ELSE ~hist.err /\ Removed(hist.kind, hist.sym)

\* An UnsubscribeCandles answered with false has returned, and it was called
\* with both candle maps holding a channel for its symbol.
C12_Witness ==
    /\ AnsweredUnsubscribe /\ Running
    /\ hist.outcome = "false" /\ hist.kind = "Candles"
    /\ Cardinality(PreEntries(hist.kind, hist.sym)) = 2

\* ---------------------------------------------------------------- C13
\* C13: a Subscribe* or Unsubscribe* whose subscription call fails in the
\* transport returns an error, and no map entry has been made, removed or
\* closed by it.
C13_TransportErrorLeavesRegistry ==
    (hist.op \in {"subscribe", "unsubscribe"} /\ hist.outcome = "err") =>
        hist.err /\ hist.done /\ Untouched

\* An Unsubscribe<K>(S) failed in the transport of an open connection while
\* the maps of K held S.
C13_Witness ==
    /\ hist.op = "unsubscribe" /\ hist.outcome = "err" /\ hist.done
    /\ PreEntries(hist.kind, hist.sym) # {}
    /\ \E t \in Callers : thr[t].pc = "idle" /\ ncalls >= 2

\* ---------------------------------------------------------------- C14
\* The places (channel, position) where a value of handler h was received.
GotOf(h) ==
    {<<c, i>> \in ChanIds \X (1..MaxMsgs) :
        i <= Len(chans[c].got) /\ chans[c].got[i].id = h}

\* What holds of a decode error in every state: the handler that has one
\* offers it on an error feed and on nothing else, and a received error was
\* received once, from an error feed, by a handler that has returned.
C14_ErrorOnErrorFeedOnly ==
    /\ \A h \in HandlerIds :
         handlers[h].val.type = "error" =>
            /\ handlers[h].pc = "send"
            /\ chans[handlers[h].ch].feed = ErrorFeedName
            /\ GotOf(h) = {}
    /\ \A c \in ChanIds : \A i \in 1..Len(chans[c].got) :
         chans[c].got[i].type = "error" =>
            /\ chans[c].feed = ErrorFeedName
            /\ handlers[chans[c].got[i].id].pc = "done"
            /\ GotOf(chans[c].got[i].id) = {<<c, i>>}

\* C14: a notification of a method of the switch whose payload does not
\* decode puts one error on the error feed, nothing on a delivery channel,
\* and its Handle changes no map and no channel.
C14_DecodeError ==
    /\ []C14_ErrorOnErrorFeedOnly
    /\ [][\A h \in HandlerIds :
            (handlers[h].pc = "run" /\ handlers'[h].val.type = "error") =>
                /\ UNCHANGED <<feed, chans, ErrorFeed>>
                /\ handlers'[h].ch = ErrorFeed]_vars

\* A decode error has been received from the error feed while a delivery
\* channel is registered and open.
C14_Witness ==
    /\ Running
    /\ \E c \in ChanIds : \E i \in 1..Len(chans[c].got) :
         chans[c].got[i].type = "error"
    /\ \E f \in Feeds, s \in Symbols :
         feed[f][s] # Nil /\ chans[feed[f][s]].st = "open"

\* ---------------------------------------------------------------- C15
\* C15: while a decode error waits on an error feed that nobody reads, every
\* later notification can still run its Handle, and once that one offers its
\* value on an open delivery channel the consumer of that channel can
\* receive.
C15_ErrorDoesNotBlockDispatch ==
    \A h1, h2 \in HandlerIds :
        (/\ Running /\ h1 < h2
         /\ handlers[h1].pc = "send" /\ handlers[h1].val.type = "error"
         /\ chans[handlers[h1].ch].st = "open") =>
            /\ handlers[h2].pc = "run" => ENABLED Handle(h2)
            /\ (/\ handlers[h2].pc = "send" /\ handlers[h2].ch \in Delivery
                /\ chans[handlers[h2].ch].st = "open") =>
                   ENABLED Receive(handlers[h2].ch)

\* The decode error of the first notification still waits on the error feed
\* and the second notification has been received from its delivery channel.
C15_Witness ==
    /\ Running /\ Len(handlers) = 2
    /\ handlers[1].pc = "send" /\ handlers[1].val.type = "error"
    /\ chans[handlers[1].ch].st = "open" /\ chans[handlers[1].ch].got = <<>>
    /\ \E c \in Delivery : GotOf(2) = {<<c, 1>>}

\* ---------------------------------------------------------------- C16
\* What holds in every state of a notification whose method is outside the
\* switch: its Handle has returned, it waits in no send and nothing of it
\* has been received from any channel.
C16_NothingSent ==
    \A h \in HandlerIds :
        handlers[h].unk =>
            /\ handlers[h].pc = "done"
            /\ \A k \in 1..Len(sendq) : sendq[k] # h
            /\ GotOf(h) = {}

\* C16: a notification whose method is none of the seven of the switch is
\* ignored: its Handle returns at once, sends nothing on a delivery channel
\* or on the error feed, and changes no map and no channel.
C16_UnknownMethodIgnored ==
    /\ []C16_NothingSent
    /\ [][\A h \in HandlerIds :
            (handlers[h].pc = "run" /\ handlers'[h].unk) =>
                /\ handlers'[h].pc = "done"
                /\ UNCHANGED <<feed, chans, ErrorFeed, sendq, fault>>]_vars

\* A notification of an unknown method has been handled while a delivery
\* channel is registered and open.
C16_Witness ==
    /\ Running
    /\ \E h \in HandlerIds : handlers[h].unk /\ handlers[h].pc = "done"
    /\ \E f \in Feeds, s \in Symbols :
         feed[f][s] # Nil /\ chans[feed[f][s]].st = "open"

\* ---------------------------------------------------------------- C17
\* Every map is empty / every channel that was in a map when the last call
\* started is closed.
RegistryEmpty == \A f \in Feeds : feed[f] = EmptyMap

PreClosed ==
    \A f \in Feeds, s \in Symbols :
        hist.pre[f][s] # Nil => chans[hist.pre[f][s]].st = "closed"

\* C17 as claimed: Close closes the error feed after it has reset the maps,
\* so the channel in ErrorFeed is never closed while a map holds an entry.
C17_ErrorFeedClosedLast ==
    chans[ErrorFeed].st = "closed" => RegistryEmpty

\* C17 as amended: Close closes the connection, then every channel the maps
\* hold, then the error feed, then resets the maps, and last puts a fresh
\* open channel in ErrorFeed: the error feed is closed before the reset,
\* while the maps still hold their (closed) entries.
C17_CloseOrderOfSteps ==
    /\ \A t \in Callers :
         thr[t].op = "close" =>
            /\ conn = "closed"
            /\ thr[t].pc \in {"range", "closeErr"} =>
                 feed = hist.pre /\ chans[ErrorFeed].st = "open"
            /\ thr[t].pc \in {"closeErr", "reset", "newErr"} => PreClosed
            /\ thr[t].pc \in {"reset", "newErr"} =>
                 /\ chans[ErrorFeed].st = "closed"
                 /\ Len(chans) = Len(hist.preChans)
            /\ (thr[t].pc = "reset" /\ thr[t].i = 1) => feed = hist.pre
            /\ thr[t].pc = "newErr" => RegistryEmpty
    /\ Finished("close") =>
         /\ RegistryEmpty /\ PreClosed
         /\ ErrorFeed = Len(hist.preChans) + 1
         /\ chans[ErrorFeed].st = "open"

\* Close has just closed the error feed and has not reset a map yet, and a
\* snapshot map and an update map still hold their entries.
C17_Witness ==
    /\ Running
    /\ \E t \in Callers : thr[t].pc = "reset" /\ thr[t].i = 1
    /\ chans[ErrorFeed].st = "closed"
    /\ \E f \in UpdateFeeds, s \in Symbols : feed[f][s] # Nil
    /\ \E f \in SnapshotFeeds, s \in Symbols : feed[f][s] # Nil

\* ---------------------------------------------------------------- C18
\* C18: at the moment Close returns, every map is empty and every delivery
\* channel made so far is closed, whatever a Subscribe* or Unsubscribe* of
\* another goroutine did while Close ran.
C18_DrainIsAtomic ==
    [][\A t \in Callers :
         (thr[t].pc = "newErr" /\ thr'[t].pc = "idle") =>
            /\ \A f \in Feeds : feed'[f] = EmptyMap
            /\ \A c \in Delivery : chans'[c].st = "closed"]_vars

\* ---------------------------------------------------------------- C19
\* A Subscribe<K>(S) has returned without error, and when it was called
\* every map of K held a channel for S.
Resubscribed ==
    /\ Finished("subscribe") /\ ~hist.err
    /\ \A i \in 1..Len(SubscribeFeeds(hist.kind)) :
         hist.pre[SubscribeFeeds(hist.kind)[i]][hist.sym] # Nil

\* C19: a Subscribe<K>(S) for a key that has its entries returns the
\* channels the maps held, makes no channel and closes none.
C19_SubscribeIdempotent ==
    Resubscribed =>
        /\ Len(hist.ret) = Len(SubscribeFeeds(hist.kind))
        /\ \A i \in 1..Len(hist.ret) :
             hist.ret[i] = hist.pre[SubscribeFeeds(hist.kind)[i]][hist.sym]
        /\ Untouched

\* A second SubscribeOrderbook(S) has returned the two channels that a first
\* one had returned.
C19_Witness ==
    /\ Resubscribed /\ Running /\ hist.kind = "Orderbook"
    /\ \A i \in 1..Len(hist.ret) :
         hist.ret[i] \in Delivery /\ hist.preChans[hist.ret[i]].returned

\* ---------------------------------------------------------------- C20
\* C20: while the only two calls made are two Subscribe<K>(S) of the same key
\* running side by side, both acknowledged, at most one channel has been
\* made for each map of K. (Subscribe<K> of the kinds that check the
\* acknowledgment: a call past its subscription call was answered true.)
C20_OneChannelPerKey ==
    (/\ ncalls = 2
     /\ \A t \in Callers : thr[t].op = "subscribe" /\ thr[t].kind # "Candles"
     /\ thr[1].kind = thr[2].kind /\ thr[1].sym = thr[2].sym) =>
        \A c, d \in Delivery :
            (chans[c].feed = chans[d].feed /\ chans[c].sym = chans[d].sym) => c = d

\* ---------------------------------------------------------------- C21
\* A call that may close channel c is in progress: an Unsubscribe<K>(S) of
\* the topic and symbol c was made for, or a Close.
MayCloseIt(c) ==
    \E t \in Callers :
        \/ thr[t].op = "close"
        \/ /\ thr[t].op = "unsubscribe"
           /\ thr[t].kind = Topic(chans[c].feed) /\ thr[t].sym = chans[c].sym

\* C21: a channel that a Subscribe<K>(S) returned and that is open is the
\* entry of its map for S, and every step that is not a step of an
\* Unsubscribe<K>(S) or of a Close leaves it open and leaves it the entry:
\* the steps of Unsubscribe* of another symbol or kind, of any Subscribe*,
\* and of Handle and the consumers.
C21_StaysOpenAndRegistered ==
    [][\A c \in Delivery :
         (chans[c].returned /\ chans[c].st = "open" /\ ~MayCloseIt(c)) =>
            /\ feed[chans[c].feed][chans[c].sym] = c
            /\ chans'[c].st = "open"
            /\ feed'[chans[c].feed][chans[c].sym] = c]_vars

\* An UnsubscribeTrades(S2) has returned, and the channels that an earlier
\* SubscribeTrades(S1) of another symbol returned are open and registered;
\* a notification has been received from one of them.
C21_Witness ==
    /\ Finished("unsubscribe") /\ hist.outcome = "true" /\ Running
    /\ hist.kind = "Trades" /\ Cardinality(PreEntries(hist.kind, hist.sym)) = 2
    /\ \E c, d \in ChansOf("Trades", CHOOSE s \in Symbols : s # hist.sym) :
         /\ c # d
         /\ chans[c].returned /\ chans[d].returned
         /\ chans[c].st = "open" /\ chans[d].st = "open"
         /\ feed[chans[c].feed][chans[c].sym] = c
         /\ feed[chans[d].feed][chans[d].sym] = d
         /\ chans[c].got # <<>>

\* ---------------------------------------------------------------- C22
\* C22: whenever no Subscribe*, Unsubscribe* or Close is in progress, the
\* update map and the snapshot map of trades, of orderbook and of candles
\* hold the same symbols, and a ticker channel is an update channel.
C22_ShapesInStep ==
    (\A t \in Callers : thr[t].pc = "idle") =>
        /\ Present(feed["notifications.TradesFeed"]) = Present(feed["TradesFeed"])
        /\ Present(feed["notifications.OrderbookFeed"]) = Present(feed["OrderbookFeed"])
        /\ Present(feed["notifications.CandlesFeed"]) = Present(feed["CandlesFeed"])
        /\ \A f \in Feeds, s \in Symbols :
             feed[f][s] # Nil =>
                /\ chans[feed[f][s]].feed = f /\ chans[feed[f][s]].sym = s
                /\ Topic(f) = "Ticker" => Shape(f) = "update"

\* No call is in progress after a subscribe of two symbols of a two-shape
\* topic and an unsubscribe of one of them: one symbol is left, in both maps.
C22_Witness ==
    /\ \A t \in Callers : thr[t].pc = "idle"
    /\ Running /\ ncalls = 3
    /\ Finished("unsubscribe") /\ hist.outcome = "true"
    /\ Cardinality(PreEntries(hist.kind, hist.sym)) = 2
    /\ \E f \in SnapshotFeeds :
         Topic(f) = hist.kind /\ Cardinality(Present(feed[f])) = 1

\* ---------------------------------------------------------------- C23
\* Handler h offers a well-formed notification on a delivery channel that a
\* Subscribe* returned and that is open.
Waiting(h) ==
    /\ h <= Len(handlers) /\ handlers[h].pc = "send"
    /\ handlers[h].ch \in Delivery
    /\ chans[handlers[h].ch].returned /\ chans[handlers[h].ch].st = "open"

\* The notification of handler h has been received, or the channel it was
\* offered on is closed or being closed by an Unsubscribe* of its key or by
\* a Close.
Settled(h) ==
    /\ h <= Len(handlers)
    /\ \/ GotOf(h) # {}
       \/ /\ handlers[h].pc = "send"
          /\ \/ chans[handlers[h].ch].st = "closed"
             \/ MayCloseIt(handlers[h].ch)

\* C23: with consumers that keep reading, every well-formed notification
\* that is offered on the channel of a subscribed key is eventually
\* received, unless the key is unsubscribed or the client shut down.
C23_EventuallyReceived ==
    \A h \in 1..MaxMsgs : Waiting(h) ~> Settled(h)

====
